---- MODULE Spec2Model ----
(***************************************************************************)
(* Request pipeline of the express application (app middleware stack) and  *)
(* the profile routes (update profile, delete account, update picture,     *)
(* attach payment card), with the stores they act on: the relational user  *)
(* record, the blob store, the document store, the session store and the   *)
(* payment provider.  Every await of a handler is a step of its own, so    *)
(* requests of the same identity interleave as they do on the event loop.  *)
(***************************************************************************)
EXTENDS Integers, Sequences, FiniteSets, TLC

\* ------------------------------------------------------------------ bounds
NumReqs == 2
MaxArticles == 2

NumClients == 1
MaxEvents == 1

Reqs == 1..NumReqs
ArticleIds == 1..MaxArticles
Clients == 1..NumClients

\* The fleet members of the realtime scenario: instances of this application.
Members == {"A", "B"}

\* process.exit has not been called.
NoExit == 0 - 1

\* ------------------------------------------------------------- blob URLs
\* A picture reference is a URL; NoUrl is the null/undefined reference.
NoUrl == 0
ProfileUrl == 1
ArticleUrl(a) == 1 + a
NewUrl(r) == 1 + MaxArticles + r
Urls == {ProfileUrl} \cup {ArticleUrl(a) : a \in ArticleIds} \cup {NewUrl(r) : r \in Reqs}

\* Payment customer references: NoCustomer is the empty stripe_customer_id.
NoCustomer == 0

\* ------------------------------------------------------------ operations
Ops == {"update", "delete", "picture", "card", "get"}

Method(op) ==
  CASE op = "update"  -> "PUT"
    [] op = "delete"  -> "DELETE"
    [] op = "picture" -> "PUT"
    [] op = "card"    -> "PUT"
    [] op = "get"     -> "GET"

\* Mutant: the CSRF middleware also lets DELETE through unverified.
IgnoredMethodsLax == {"GET", "HEAD", "OPTIONS", "DELETE"}

\* csrf() with its default options verifies every method but these.
IgnoredMethods == {"GET", "HEAD", "OPTIONS"}

\* Mutant: the picture route uploads before it checks the identity.
RouteChainUploadFirst(op) ==
  CASE op = "update"  -> <<"validate", "isLoggedIn", "u_update">>
    [] op = "delete"  -> <<"isLoggedIn", "d_find">>
    [] op = "picture" -> <<"upload", "isLoggedIn", "p_update">>
    [] op = "card"    -> <<"isLoggedIn", "c_customer">>
    [] op = "get"     -> <<"proxy">>

\* The middleware chain each route registers, in registration order, ending
\* with the first step of its async handler.
RouteChain(op) ==
  CASE op = "update"  -> <<"validate", "isLoggedIn", "u_update">>
    [] op = "delete"  -> <<"isLoggedIn", "d_find">>
    [] op = "picture" -> <<"isLoggedIn", "upload", "p_update">>
    [] op = "card"    -> <<"isLoggedIn", "c_customer">>
    [] op = "get"     -> <<"proxy">>

\* The stage that follows stage s in the chain of op.
RECURSIVE IndexOf(_, _, _)
IndexOf(seq, s, i) ==
  IF i > Len(seq) THEN 0 ELSE IF seq[i] = s THEN i ELSE IndexOf(seq, s, i + 1)

NextInChain(op, s) == RouteChain(op)[IndexOf(RouteChain(op), s, 1) + 1]

\* Mutant: passport is registered before the CSRF middleware.
AppStackPassportFirst == <<"session", "passport", "csrf", "xsrf">>

\* The application-level middleware in the order app.use registers them;
\* the router follows the last of them.
AppStack == <<"session", "csrf", "xsrf", "passport">>

\* Where next() of middleware s leads for a request of operation op.
AfterMw(op, s) ==
  IF IndexOf(AppStack, s, 1) = Len(AppStack)
    THEN RouteChain(op)[1]
    ELSE AppStack[IndexOf(AppStack, s, 1) + 1]

\* ----------------------------------------------------------------- state
VARIABLES
  pc,        \* pc[r]: the stage or handler step request r is at
  inp,       \* inp[r]: what the client sent (operation, cookie, CSRF token)
  rq,        \* rq[r]: the request object (session, user, handler locals)
  res,       \* res[r]: the response object (statusCode, responses sent, cookie)
  err,       \* err[r]: the error passed to next(err), if any
  eff,       \* eff[r]: the calls request r has made on the stores
  db,        \* the relational user record
  articles,  \* articles[a]: picture of article a of this author (NoUrl = null)
  blobs,     \* URLs present in blob storage
  docs,      \* documents of this author are present in the document store
  sessions,  \* session ids present in the session store
  customers, \* number of customers created at the payment provider
  log,       \* log[r]: entries written to the loggers by request r
  boot,      \* the process: how far startServer got, what it logged, its exit
  conn,      \* conn[c]: the realtime connection client c asked for
  relay      \* events published to the identity's room, force-close included

vars == <<pc, inp, rq, res, err, eff, db, articles, blobs, docs, sessions, customers, log,
          boot, conn, relay>>

\* The error handed to next(err): its message, the URL it is about, and
\* whether it is the rejection of a call on a collaborator (a store, the
\* payment provider) rather than a decision of the pipeline itself.
NoErr == [msg |-> "none", url |-> NoUrl, fault |-> FALSE]
Error(m, u) == [msg |-> m, url |-> u, fault |-> TRUE]
Rejection(m) == [msg |-> m, url |-> NoUrl, fault |-> FALSE]

Terminal == {"done", "hung", "dropped"}

InitRq == [session |-> "none", hasUser |-> FALSE, picture |-> NoUrl,
           customer |-> NoCustomer, snapDone |-> FALSE, snap |-> {},
           file |-> NoUrl, setCustomer |-> FALSE, stages |-> <<>>]

InitEff == [tried |-> {}, failed |-> {}, uploaded |-> {}, relWrite |-> FALSE,
            destroyed |-> "no", docs |-> FALSE, pay |-> 0, teardown |-> FALSE,
            handler |-> FALSE]

InitRes == [statusCode |-> 200, sent |-> 0, xsrf |-> FALSE, body |-> "none"]

InitInp == [op |-> "get", cookie |-> "none", token |-> "missing", valid |-> TRUE]

\* The process before startServer() is called.
BootStart == [pc |-> "mongo", mongo |-> "pending", mysql |-> "pending",
              listening |-> FALSE, logged |-> FALSE, loggerEnded |-> FALSE,
              exit |-> NoExit]

\* The process once startServer() has resolved: both stores are connected
\* and the application is listening.
BootUp == [pc |-> "up", mongo |-> "ok", mysql |-> "ok",
           listening |-> TRUE, logged |-> FALSE, loggerEnded |-> FALSE,
           exit |-> NoExit]

InitConn == [state |-> "none", member |-> "A", cookie |-> "none", valid |-> FALSE,
             validated |-> FALSE, rcvd |-> 0, local |-> 0, expected |-> 0]

InitWith(b) ==
  /\ boot = b
  /\ conn = [c \in Clients |-> InitConn]
  /\ relay = [events |-> 0, forceClose |-> FALSE]
  /\ pc = [r \in Reqs |-> "idle"]
  /\ inp = [r \in Reqs |-> InitInp]
  /\ rq = [r \in Reqs |-> InitRq]
  /\ res = [r \in Reqs |-> InitRes]
  /\ err = [r \in Reqs |-> NoErr]
  /\ eff = [r \in Reqs |-> InitEff]
  /\ \E p \in {NoUrl, ProfileUrl} :
       db = [exists |-> TRUE, picture |-> p, customer |-> NoCustomer, card |-> FALSE]
  /\ articles \in [ArticleIds -> {NoUrl} \cup {ArticleUrl(a) : a \in ArticleIds}]
  /\ \A a \in ArticleIds : articles[a] \in {NoUrl, ArticleUrl(a)}
  /\ blobs = ({db.picture} \cup {articles[a] : a \in ArticleIds}) \ {NoUrl}
  /\ docs = TRUE
  /\ sessions = {"anon", "auth"}
  /\ customers = 0
  /\ log = [r \in Reqs |-> <<>>]

\* The application serving requests: startServer() has resolved.
Init == InitWith(BootUp)

\* --------------------------------------------------------------- helpers
\* next(err): express skips to the error-handling middleware.
Fail(r, e) ==
  /\ pc' = [pc EXCEPT ![r] = "errorHandler"]
  /\ err' = [err EXCEPT ![r] = e]

Goto(r, s) == pc' = [pc EXCEPT ![r] = s]

\* res.json / res.send with the current status code.
Send(r, body) ==
  res' = [res EXCEPT ![r].sent = @ + 1, ![r].body = body]

LogEntry(level, msg, url) == [level |-> level, msg |-> msg, url |-> url]

Log(r, e) == log' = [log EXCEPT ![r] = Append(@, e)]

\* ------------------------------------------------- the middleware stack
\* A client sends a request (requests are numbered as they arrive): an
\* operation, the session cookie it holds and the CSRF token it supplies
\* ("good" is the token of the session its cookie names).
Arrive(r) ==
  /\ boot.listening
  /\ pc[r] = "idle"
  /\ \A q \in Reqs : q < r => pc[q] # "idle"
  /\ \E op \in Ops, c \in {"none", "anon", "auth"},
        t \in {"missing", "bad", "good"}, v \in BOOLEAN :
       /\ (op # "update") => v
       /\ inp' = [inp EXCEPT ![r] = [op |-> op, cookie |-> c, token |-> t, valid |-> v]]
  /\ Goto(r, AppStack[1])
  /\ UNCHANGED <<rq, res, err, eff, db, articles, blobs, docs, sessions, customers, log>>
  /\ UNCHANGED <<boot, conn, relay>>

\* session(sessionConfig): loads the record the cookie names from the shared
\* store, or starts a fresh session when there is none; a store error is
\* passed to next(err).
SessionMw(r) ==
  /\ pc[r] = "session"
  /\ \/ /\ rq' = [rq EXCEPT ![r].session =
                    IF inp[r].cookie \in sessions THEN inp[r].cookie ELSE "new",
                          ![r].stages = Append(@, "session")]
        /\ Goto(r, AfterMw(inp[r].op, "session"))
        /\ UNCHANGED err
     \/ /\ rq' = [rq EXCEPT ![r].stages = Append(@, "session")]
        /\ Fail(r, Error("session store", NoUrl))
  /\ UNCHANGED <<inp, res, eff, db, articles, blobs, docs, sessions, customers, log>>
  /\ UNCHANGED <<boot, conn, relay>>

\* The token verifies only against the secret of the session it was issued
\* for; a fresh session has a fresh secret no supplied token matches.
CsrfVerify(r) ==
  /\ inp[r].token = "good"
  /\ rq[r].session \in {"anon", "auth"}
  /\ rq[r].session = inp[r].cookie

\* csrf(): a request of a verified method with a missing or mismatched token
\* is passed to next(err) and reaches no later middleware.
CsrfMw(r) ==
  /\ pc[r] = "csrf"
  /\ rq' = [rq EXCEPT ![r].stages = Append(@, "csrf")]
  /\ IF Method(inp[r].op) \in IgnoredMethods \/ CsrfVerify(r)
       THEN Goto(r, AfterMw(inp[r].op, "csrf")) /\ UNCHANGED err
       ELSE Fail(r, Rejection("invalid csrf token"))
  /\ UNCHANGED <<inp, res, eff, db, articles, blobs, docs, sessions, customers, log>>
  /\ UNCHANGED <<boot, conn, relay>>

\* app.all('*'): res.cookie('XSRF-TOKEN', req.csrfToken()); next().
XsrfCookie(r) ==
  /\ pc[r] = "xsrf"
  /\ res' = [res EXCEPT ![r].xsrf = TRUE]
  /\ Goto(r, AfterMw(inp[r].op, "xsrf"))
  /\ UNCHANGED <<inp, rq, err, eff, db, articles, blobs, docs, sessions, customers, log>>
  /\ UNCHANGED <<boot, conn, relay>>

\* passport.initialize(), passport.session(): a session that carries a login
\* gets req.user, the user row as it is read now; then the router dispatches
\* to the first middleware of the matching route.
PassportMw(r) ==
  /\ pc[r] = "passport"
  /\ rq' = [rq EXCEPT ![r].hasUser = (rq[r].session = "auth" /\ db.exists),
                      ![r].picture = IF rq[r].session = "auth" /\ db.exists
                                       THEN db.picture ELSE NoUrl,
                      ![r].customer = IF rq[r].session = "auth" /\ db.exists
                                        THEN db.customer ELSE NoCustomer,
                      ![r].stages = Append(@, "passport")]
  /\ Goto(r, AfterMw(inp[r].op, "passport"))
  /\ UNCHANGED <<inp, res, err, eff, db, articles, blobs, docs, sessions, customers, log>>
  /\ UNCHANGED <<boot, conn, relay>>

\* editProfileValidation: rejects an invalid body with a response of its own.
Validate(r) ==
  /\ pc[r] = "validate"
  /\ IF inp[r].valid
       THEN Goto(r, NextInChain(inp[r].op, "validate")) /\ UNCHANGED res
       ELSE /\ res' = [res EXCEPT ![r].statusCode = 422, ![r].sent = @ + 1,
                                  ![r].body = "validation"]
            /\ Goto(r, "done")
  /\ UNCHANGED <<inp, rq, err, eff, db, articles, blobs, docs, sessions, customers, log>>
  /\ UNCHANGED <<boot, conn, relay>>

\* isLoggedIn: lets a request with req.user through, answers 401 otherwise.
IsLoggedIn(r) ==
  /\ pc[r] = "isLoggedIn"
  /\ IF rq[r].hasUser
       THEN Goto(r, NextInChain(inp[r].op, "isLoggedIn")) /\ UNCHANGED res
       ELSE /\ res' = [res EXCEPT ![r].statusCode = 401, ![r].sent = @ + 1,
                                  ![r].body = "unauthorized"]
            /\ Goto(r, "done")
  /\ UNCHANGED <<inp, rq, err, eff, db, articles, blobs, docs, sessions, customers, log>>
  /\ UNCHANGED <<boot, conn, relay>>

\* The error-handling middleware: answers 500 with the error's message when
\* the status code is still 200, and writes the error to the error log.  It
\* neither answers nor calls next when the status code was already changed;
\* when a response was already sent, send() throws before the log call.
ErrorHandler(r) ==
  /\ pc[r] = "errorHandler"
  /\ IF res[r].statusCode = 200
       THEN IF res[r].sent = 0
              THEN /\ res' = [res EXCEPT ![r].statusCode = 500, ![r].sent = @ + 1,
                                         ![r].body = err[r].msg]
                   /\ Log(r, LogEntry("error", err[r].msg, err[r].url))
                   /\ Goto(r, "done")
              ELSE /\ res' = [res EXCEPT ![r].statusCode = 500]
                   /\ UNCHANGED log
                   /\ Goto(r, "done")
       ELSE /\ Log(r, LogEntry("error", err[r].msg, err[r].url))
            /\ UNCHANGED res
            /\ Goto(r, IF res[r].sent = 0 THEN "hung" ELSE "done")
  /\ UNCHANGED <<inp, rq, err, eff, db, articles, blobs, docs, sessions, customers>>
  /\ UNCHANGED <<boot, conn, relay>>

\* app.get('*'): https.get(FRONTEND_URL, response => response.pipe(res)).  The
\* upstream answer is piped to the caller; when the upstream request fails no
\* 'error' listener is attached and nothing is ever written to res.
Proxy(r) ==
  /\ pc[r] = "proxy"
  /\ \/ /\ Send(r, "frontend")
        /\ Goto(r, "done")
     \/ /\ Goto(r, "dropped")
        /\ UNCHANGED res
  /\ UNCHANGED <<inp, rq, err, eff, db, articles, blobs, docs, sessions, customers, log>>
  /\ UNCHANGED <<boot, conn, relay>>

\* ------------------------------------------------ DELETE api/v1/profile
\* Mutant: the query does not filter out the articles without a picture.
ArticlesPicturesUnfiltered == {articles[a] : a \in ArticleIds}

\* Mutant: the query matches no article of the author.
ArticlesPicturesNone == {}

\* The non-null pictures of the author's articles, as Article.findAll with
\* picture: {[Op.not]: null} returns them, mapped to their URLs.
ArticlesPictures == {articles[a] : a \in ArticleIds} \ {NoUrl}

\* oldProfilePicture is read from req.user, then Article.findAll is awaited:
\* the media references are snapshotted before anything is deleted.
DeleteEnumerate(r) ==
  /\ pc[r] = "d_find"
  /\ eff' = [eff EXCEPT ![r].handler = TRUE]
  /\ \/ /\ rq' = [rq EXCEPT ![r].snap = ArticlesPictures, ![r].snapDone = TRUE]
        /\ Goto(r, "d_destroy")
        /\ UNCHANGED err
     \/ /\ Fail(r, Error("findAll", NoUrl))
        /\ UNCHANGED rq
  /\ UNCHANGED <<inp, res, db, articles, blobs, docs, sessions, customers, log>>
  /\ UNCHANGED <<boot, conn, relay>>

\* Mutant: a rejected destroy() is caught and the cleanup goes on.
DestroyRejectedSwallow(r) ==
  /\ Goto(r, "d_pic")
  /\ err' = [err EXCEPT ![r] = Error("destroy", NoUrl)]

\* A rejected req.user.destroy() leaves the async handler: asyncHandler
\* passes the rejection to next(err).
DestroyRejected(r) == Fail(r, Error("destroy", NoUrl))

\* Mutant: destroy() rejects when the row is already gone.
DestroyResolvesStrict(r) ==
  IF db.exists THEN Goto(r, "d_pic") /\ UNCHANGED err
               ELSE Fail(r, Rejection("not found"))

\* A resolved req.user.destroy(): DELETE ... WHERE id resolves whether or not
\* it removed a row, and the handler does not look at its result.
DestroyResolves(r) ==
  /\ Goto(r, "d_pic")
  /\ UNCHANGED err

\* await req.user.destroy(): the relational record is deleted.
DeleteDestroy(r) ==
  /\ pc[r] = "d_destroy"
  /\ \/ /\ db' = [db EXCEPT !.exists = FALSE]
        /\ eff' = [eff EXCEPT ![r].destroyed = IF db.exists THEN "present" ELSE "absent",
                              ![r].relWrite = TRUE]
        /\ DestroyResolves(r)
     \/ /\ DestroyRejected(r)
        /\ UNCHANGED <<db, eff>>
  /\ UNCHANGED <<inp, rq, res, articles, blobs, docs, sessions, customers, log>>
  /\ UNCHANGED <<boot, conn, relay>>

\* if (oldProfilePicture) await deleteFile(oldProfilePicture): a rejection
\* leaves the handler before the articles' pictures are looked at.
DeleteProfilePicture(r) ==
  /\ pc[r] = "d_pic"
  /\ IF rq[r].picture # NoUrl
       THEN \/ /\ eff' = [eff EXCEPT ![r].tried = @ \cup {rq[r].picture}]
               /\ blobs' = blobs \ {rq[r].picture}
               /\ Goto(r, "d_arts")
               /\ UNCHANGED err
            \/ /\ eff' = [eff EXCEPT ![r].tried = @ \cup {rq[r].picture},
                                     ![r].failed = @ \cup {rq[r].picture}]
               /\ Fail(r, Error("deleteFile", rq[r].picture))
               /\ UNCHANGED blobs
       ELSE /\ Goto(r, "d_arts")
            /\ UNCHANGED <<eff, blobs, err>>
  /\ UNCHANGED <<inp, rq, res, db, articles, docs, sessions, customers, log>>
  /\ UNCHANGED <<boot, conn, relay>>

\* if (articlesPictures.length) await Promise.all(articlesPictures.map(url =>
\* deleteFile(url))): every deletion is started; Promise.all rejects with the
\* first rejection, F being the deletions that fail.
DeleteArticlesPictures(r) ==
  /\ pc[r] = "d_arts"
  /\ \E F \in SUBSET rq[r].snap :
       /\ eff' = [eff EXCEPT ![r].tried = @ \cup rq[r].snap, ![r].failed = @ \cup F]
       /\ blobs' = blobs \ (rq[r].snap \ F)
       /\ IF F = {}
            THEN Goto(r, "d_docs") /\ UNCHANGED err
            ELSE \E u \in F : Fail(r, Error("deleteFile", u))
  /\ UNCHANGED <<inp, rq, res, db, articles, docs, sessions, customers, log>>
  /\ UNCHANGED <<boot, conn, relay>>

\* await ArticlesView.deleteMany({authorId: id}), then the success log entry.
DeleteDocuments(r) ==
  /\ pc[r] = "d_docs"
  /\ eff' = [eff EXCEPT ![r].docs = TRUE]
  /\ \/ /\ docs' = FALSE
        /\ Log(r, LogEntry("info", "deleted", NoUrl))
        /\ Goto(r, "d_logout")
        /\ UNCHANGED err
     \/ /\ Fail(r, Error("deleteMany", NoUrl))
        /\ UNCHANGED <<docs, log>>
  /\ UNCHANGED <<inp, rq, res, db, articles, blobs, sessions, customers>>
  /\ UNCHANGED <<boot, conn, relay>>

\* await authService.logout(req, res, next): the session record is destroyed,
\* a force-close event for the identity is published and the caller is
\* answered.
Logout(r) ==
  /\ pc[r] = "d_logout"
  /\ eff' = [eff EXCEPT ![r].teardown = TRUE]
  /\ \/ /\ sessions' = sessions \ {rq[r].session}
        /\ relay' = [relay EXCEPT !.forceClose = TRUE]
        /\ Send(r, "logout")
        /\ Goto(r, "done")
        /\ UNCHANGED err
     \/ /\ Fail(r, Error("logout", NoUrl))
        /\ UNCHANGED <<sessions, res, relay>>
  /\ UNCHANGED <<inp, rq, db, articles, blobs, docs, customers, log>>
  /\ UNCHANGED <<boot, conn>>

\* --------------------------------------------------- PUT api/v1/profile
\* Mutant: update() inserts the row again when it is gone (an upsert).
UserUpdateUpsert(fields) == [fields EXCEPT !.exists = TRUE]

\* req.user.update(fields): UPDATE ... WHERE id changes the row when there is
\* one and nothing otherwise.
UserUpdate(fields) == IF db.exists THEN fields ELSE db

\* await req.user.update(userData); log; res.json({data: req.user}).
UpdateProfile(r) ==
  /\ pc[r] = "u_update"
  /\ \/ /\ db' = UserUpdate(db)
        /\ eff' = [eff EXCEPT ![r].handler = TRUE, ![r].relWrite = TRUE]
        /\ Log(r, LogEntry("info", "updated", NoUrl))
        /\ Send(r, "user")
        /\ Goto(r, "done")
        /\ UNCHANGED err
     \/ /\ eff' = [eff EXCEPT ![r].handler = TRUE]
        /\ Fail(r, Error("update", NoUrl))
        /\ UNCHANGED <<db, log, res>>
  /\ UNCHANGED <<inp, rq, articles, blobs, docs, sessions, customers>>
  /\ UNCHANGED <<boot, conn, relay>>

\* ------------------------------------------- PUT api/v1/profile/picture
\* upload.single('picture'): multer stores the file in blob storage and sets
\* req.file.url.
Upload(r) ==
  /\ pc[r] = "upload"
  /\ \/ /\ blobs' = blobs \cup {NewUrl(r)}
        /\ rq' = [rq EXCEPT ![r].file = NewUrl(r)]
        /\ eff' = [eff EXCEPT ![r].uploaded = @ \cup {NewUrl(r)}]
        /\ Goto(r, NextInChain(inp[r].op, "upload"))
        /\ UNCHANGED err
     \/ /\ Fail(r, Error("upload", NoUrl))
        /\ UNCHANGED <<blobs, rq, eff>>
  /\ UNCHANGED <<inp, res, db, articles, docs, sessions, customers, log>>
  /\ UNCHANGED <<boot, conn, relay>>

\* Mutant: a rejected update() is caught and the handler goes on.
PictureUpdateRejectedSwallow(r) ==
  /\ Goto(r, "p_delete")
  /\ err' = [err EXCEPT ![r] = Error("update", NoUrl)]

\* A rejected req.user.update() leaves the async handler through next(err),
\* before the old picture is looked at.
PictureUpdateRejected(r) == Fail(r, Error("update", NoUrl))

\* oldPicture = req.user.picture; await req.user.update({picture}); log.
\* rq[r].picture keeps standing for oldPicture.
PictureUpdate(r) ==
  /\ pc[r] = "p_update"
  /\ \/ /\ db' = UserUpdate([db EXCEPT !.picture = rq[r].file])
        /\ eff' = [eff EXCEPT ![r].handler = TRUE, ![r].relWrite = TRUE]
        /\ Log(r, LogEntry("info", "picture updated", NoUrl))
        /\ Goto(r, "p_delete")
        /\ UNCHANGED err
     \/ /\ eff' = [eff EXCEPT ![r].handler = TRUE]
        /\ PictureUpdateRejected(r)
        /\ UNCHANGED <<db, log>>
  /\ UNCHANGED <<inp, rq, res, articles, blobs, docs, sessions, customers>>
  /\ UNCHANGED <<boot, conn, relay>>

\* if (oldPicture) await deleteFile(oldPicture); res.json(...).
PictureDeleteOld(r) ==
  /\ pc[r] = "p_delete"
  /\ IF rq[r].picture # NoUrl
       THEN \/ /\ eff' = [eff EXCEPT ![r].tried = @ \cup {rq[r].picture}]
               /\ blobs' = blobs \ {rq[r].picture}
               /\ Send(r, "picture")
               /\ Goto(r, "done")
               /\ UNCHANGED err
            \/ /\ eff' = [eff EXCEPT ![r].tried = @ \cup {rq[r].picture},
                                     ![r].failed = @ \cup {rq[r].picture}]
               /\ Fail(r, Error("deleteFile", rq[r].picture))
               /\ UNCHANGED <<blobs, res>>
       ELSE /\ Send(r, "picture")
            /\ Goto(r, "done")
            /\ UNCHANGED <<eff, blobs, err>>
  /\ UNCHANGED <<inp, rq, db, articles, docs, sessions, customers, log>>
  /\ UNCHANGED <<boot, conn, relay>>

\* ---------------------------------------------- PUT api/v1/profile/card
\* if (!customerId) customerId = await createCustomer(user.email).
CardCustomer(r) ==
  /\ pc[r] = "c_customer"
  /\ IF rq[r].customer = NoCustomer
       THEN \/ /\ customers' = customers + 1
               /\ rq' = [rq EXCEPT ![r].customer = customers + 1,
                                   ![r].setCustomer = TRUE]
               /\ eff' = [eff EXCEPT ![r].handler = TRUE, ![r].pay = @ + 1]
               /\ Goto(r, "c_card")
               /\ UNCHANGED err
            \/ /\ eff' = [eff EXCEPT ![r].handler = TRUE, ![r].pay = @ + 1]
               /\ Fail(r, Error("createCustomer", NoUrl))
               /\ UNCHANGED <<customers, rq>>
       ELSE /\ eff' = [eff EXCEPT ![r].handler = TRUE]
            /\ Goto(r, "c_card")
            /\ UNCHANGED <<customers, rq, err>>
  /\ UNCHANGED <<inp, res, db, articles, blobs, docs, sessions, log>>
  /\ UNCHANGED <<boot, conn, relay>>

\* const cardId = await createCard(token, customerId).
CardCreate(r) ==
  /\ pc[r] = "c_card"
  /\ eff' = [eff EXCEPT ![r].pay = @ + 1]
  /\ \/ Goto(r, "c_update") /\ UNCHANGED err
     \/ Fail(r, Error("createCard", NoUrl))
  /\ UNCHANGED <<inp, rq, res, db, articles, blobs, docs, sessions, customers, log>>
  /\ UNCHANGED <<boot, conn, relay>>

\* await user.update(updateData); res.json({data: user}).
CardUpdate(r) ==
  /\ pc[r] = "c_update"
  /\ \/ /\ db' = UserUpdate([db EXCEPT !.card = TRUE,
                                       !.customer = IF rq[r].setCustomer
                                                      THEN rq[r].customer ELSE @])
        /\ eff' = [eff EXCEPT ![r].relWrite = TRUE]
        /\ Send(r, "user")
        /\ Goto(r, "done")
        /\ UNCHANGED err
     \/ /\ Fail(r, Error("update", NoUrl))
        /\ UNCHANGED <<db, eff, res>>
  /\ UNCHANGED <<inp, rq, articles, blobs, docs, sessions, customers, log>>
  /\ UNCHANGED <<boot, conn, relay>>

\* -------------------------------------------------------------- startup
httpvars == <<pc, inp, rq, res, err, eff, db, articles, blobs, docs, sessions, customers, log>>

\* Mutant: the failed MongoDB connection is not rethrown and startup goes on.
MongoFailedIgnored == [boot EXCEPT !.mongo = "failed", !.pc = "mysql"]

\* dbMongo.connect() rejected: the catch throws, startServer() rejects.
MongoFailed == [boot EXCEPT !.mongo = "failed", !.pc = "catch"]

\* await dbMongo.connect().catch(err => { throw ... }).
MongoConnect ==
  /\ boot.pc = "mongo"
  /\ \/ boot' = [boot EXCEPT !.mongo = "ok", !.pc = "mysql"]
     \/ boot' = MongoFailed
  /\ UNCHANGED <<httpvars, conn, relay>>

\* await dbMysql.authenticate().catch(err => { throw ... }); on success the
\* info entry is logged and app.listen(port) is called.
MysqlAuthenticate ==
  /\ boot.pc = "mysql"
  /\ \/ boot' = [boot EXCEPT !.mysql = "ok", !.pc = "listen"]
     \/ boot' = [boot EXCEPT !.mysql = "failed", !.pc = "catch"]
  /\ UNCHANGED <<httpvars, conn, relay>>

\* app.listen(port, callback): the application's own server starts to
\* listen; when the port cannot be bound the 'error' event has no listener
\* and the process dies of the uncaught exception.
Listen ==
  /\ boot.pc = "listen"
  /\ \/ boot' = [boot EXCEPT !.listening = TRUE, !.pc = "up"]
     \/ boot' = [boot EXCEPT !.pc = "crashed", !.exit = 1]
  /\ UNCHANGED <<httpvars, conn, relay>>

\* startServer().catch: errorLogger.log(...) and errorLogger.end(callback).
StartupCatch ==
  /\ boot.pc = "catch"
  /\ boot' = [boot EXCEPT !.logged = TRUE, !.pc = "ending"]
  /\ UNCHANGED <<httpvars, conn, relay>>

\* The callback of errorLogger.end: process.exit(1).
LoggerEnded ==
  /\ boot.pc = "ending"
  /\ boot' = [boot EXCEPT !.loggerEnded = TRUE, !.exit = 1, !.pc = "exited"]
  /\ UNCHANGED <<httpvars, conn, relay>>

\* ------------------------------------------------------------- realtime
\* Mutant: server.listen(port) is called, so the server socket.io is attached
\* to accepts connections.
IoListeningOnServer == TRUE

\* io = socketio(server) is attached to `server`, but the process listens
\* with app.listen(port), which creates a server of its own: no handshake
\* ever reaches socket.io.
IoListening == FALSE

\* No io.use(passportSocketIo.authorize(...)) is registered: an accepted
\* handshake is not checked against the session store.
HandshakeValidates == FALSE

\* No io.adapter(adapter(...)) is attached: an event emitted on one member
\* reaches the sockets of that member only.
AdapterAttached == FALSE

Delivers(from, to) == from = to \/ AdapterAttached

\* A client asks member m for a realtime connection, presenting a session
\* cookie: none, a tampered one, a sealed one of no stored session, or the
\* cookie of the identity's session.
Handshake(c) ==
  /\ boot.listening
  /\ conn[c].state = "none"
  /\ \E m \in Members, k \in {"none", "tampered", "unknown", "auth"} :
       LET valid == k = "auth" /\ "auth" \in sessions
           accepted == IoListening /\ (HandshakeValidates => valid)
       IN conn' = [conn EXCEPT ![c] =
                     [@ EXCEPT !.state = IF accepted THEN "bound" ELSE "refused",
                               !.member = m, !.cookie = k, !.valid = valid,
                               !.validated = HandshakeValidates /\ valid]]
  /\ UNCHANGED <<httpvars, boot, relay>>

\* Member m emits an event addressed to the identity's room.  rcvd counts the
\* deliveries to a connection from another member, local those from its own;
\* expected counts the events another member published for the identity
\* since a client holding its valid session asked for the connection.
Publish(m) ==
  /\ boot.listening
  /\ relay.events < MaxEvents
  /\ relay' = [relay EXCEPT !.events = @ + 1]
  /\ conn' = [c \in Clients |->
       [conn[c] EXCEPT
          !.rcvd = IF conn[c].state = "bound" /\ conn[c].member # m
                      /\ Delivers(m, conn[c].member)
                     THEN @ + 1 ELSE @,
          !.local = IF conn[c].state = "bound" /\ conn[c].member = m
                      THEN @ + 1 ELSE @,
          !.expected = IF conn[c].state # "none" /\ conn[c].valid /\ conn[c].member # m
                         THEN @ + 1 ELSE @]]
  /\ UNCHANGED <<httpvars, boot>>

\* ----------------------------------------------------------------- spec
HttpStep(r) ==
  \/ Arrive(r)
  \/ SessionMw(r)
  \/ CsrfMw(r)
  \/ XsrfCookie(r)
  \/ PassportMw(r)
  \/ Validate(r)
  \/ IsLoggedIn(r)
  \/ ErrorHandler(r)
  \/ Proxy(r)
  \/ DeleteEnumerate(r)
  \/ DeleteDestroy(r)
  \/ DeleteProfilePicture(r)
  \/ DeleteArticlesPictures(r)
  \/ DeleteDocuments(r)
  \/ Logout(r)
  \/ UpdateProfile(r)
  \/ Upload(r)
  \/ PictureUpdate(r)
  \/ PictureDeleteOld(r)
  \/ CardCustomer(r)
  \/ CardCreate(r)
  \/ CardUpdate(r)

Next == \E r \in Reqs : HttpStep(r)

Spec == Init /\ [][Next]_vars

\* The life of one process from startServer() on: startup, then the realtime
\* handshakes and publications and the requests it serves.
InitServer == InitWith(BootStart)

NextServer ==
  \/ MongoConnect
  \/ MysqlAuthenticate
  \/ Listen
  \/ StartupCatch
  \/ LoggerEnded
  \/ \E c \in Clients : Handshake(c)
  \/ \E m \in Members : Publish(m)
  \/ HttpStep(1)

SpecServer == InitServer /\ [][NextServer]_vars

\* The catch of startServer() and the logger's end callback are run by the
\* event loop once they are due.
SpecServerFair == SpecServer /\ WF_vars(StartupCatch) /\ WF_vars(LoggerEnded)

TypeOK ==
  /\ boot.pc \in {"mongo", "mysql", "listen", "up", "catch", "ending", "exited", "crashed"}
  /\ boot.exit \in {NoExit, 1}
  /\ \A c \in Clients :
       /\ conn[c].state \in {"none", "bound", "refused"}
       /\ conn[c].member \in Members
       /\ conn[c].rcvd \in 0..MaxEvents
       /\ conn[c].expected \in 0..MaxEvents
  /\ relay.events \in 0..MaxEvents
  /\ pc \in [Reqs -> {"idle", "session", "csrf", "xsrf", "passport", "validate",
                      "isLoggedIn", "upload", "proxy", "errorHandler",
                      "d_find", "d_destroy", "d_pic", "d_arts", "d_docs", "d_logout",
                      "u_update", "p_update", "p_delete",
                      "c_customer", "c_card", "c_update"} \cup Terminal]
  /\ blobs \subseteq Urls
  /\ sessions \subseteq {"anon", "auth"}
  /\ customers \in 0..NumReqs

\* --------------------------------------------------------------- claims
Mutating == {"update", "delete", "picture", "card"}

\* The media references a delete run holds once its enumeration is done: the
\* profile picture captured from req.user and the articles' pictures.
SnapRefs(r) == ({rq[r].picture} \ {NoUrl}) \cup rq[r].snap

\* The run of r got past step 2: its destroy() resolved.
Destroyed(r) == eff[r].destroyed \in {"present", "absent"}

NoSideEffect(r) ==
  /\ ~eff[r].relWrite
  /\ eff[r].tried = {}
  /\ eff[r].uploaded = {}
  /\ ~eff[r].docs
  /\ eff[r].pay = 0
  /\ ~eff[r].teardown

\* C1: when the deletion of the relational record (step 2) fails, the run
\* aborts: it attempts no blob deletion, no document bulk-delete and no
\* session teardown, and the caller is answered with a failure (500).
C1_DestroyFailureAborts ==
  \A r \in Reqs :
    err[r].msg = "destroy" =>
      /\ pc[r] \in {"errorHandler", "done"}
      /\ eff[r].tried = {}
      /\ ~eff[r].docs
      /\ ~eff[r].teardown
      /\ eff[r].destroyed = "no"
      /\ pc[r] = "done" => (res[r].statusCode = 500 /\ res[r].sent = 1)

C1_Witness ==
  \E r \in Reqs :
    /\ inp[r].op = "delete"
    /\ err[r].msg = "destroy"
    /\ pc[r] = "done"
    /\ res[r].statusCode = 500
    /\ db.exists

\* C2: in a delete run that got past step 2, a deletion is attempted for
\* every snapshotted blob, whichever of the deletions fail.
C2_EveryBlobAttempted ==
  \A r \in Reqs :
    (Destroyed(r) /\ pc[r] \in Terminal) => eff[r].tried = SnapRefs(r)

\* C3: once the relational record is deleted, the caller is answered with
\* success whatever fails in a later step.
C3_SuccessAfterDestroy ==
  \A r \in Reqs :
    (Destroyed(r) /\ pc[r] \in Terminal) =>
      (res[r].statusCode = 200 /\ res[r].sent = 1)

\* C4: a delete run with two snapshotted blobs of which exactly one fails to
\* delete ends with the record deleted, the other blob deleted, the documents
\* bulk-deleted and exactly one failure log entry, naming the failed URL.
C4_OneOfTwoBlobsFails ==
  \A r \in Reqs :
    ( /\ Destroyed(r)
      /\ pc[r] \in Terminal
      /\ Cardinality(SnapRefs(r)) = 2
      /\ Cardinality(eff[r].failed) = 1 ) =>
        /\ ~db.exists
        /\ (SnapRefs(r) \ eff[r].failed) \cap blobs = {}
        /\ eff[r].tried = SnapRefs(r)
        /\ ~docs
        /\ Cardinality({i \in 1..Len(log[r]) : log[r][i].level = "error"}) = 1
        /\ \A i \in 1..Len(log[r]) :
             log[r][i].level = "error" => log[r][i].url \in eff[r].failed

C6_RecordStaysDeleted ==
  [][ /\ (~db.exists => ~db'.exists)
      /\ \A r \in Reqs :
           (Destroyed(r)' /\ pc'[r] = "done" /\ res'[r].statusCode = 200) => ~db'.exists
    ]_vars

C6_Witness ==
  \E r, q \in Reqs :
    /\ eff[r].destroyed = "present"
    /\ pc[r] = "done"
    /\ res[r].statusCode = 500
    /\ inp[q].op \in {"update", "picture", "card"}
    /\ eff[q].relWrite
    /\ ~db.exists

\* C7: a delete run that finds the record already absent at step 2 treats it
\* as success: unless a call on a store rejects, it goes on with the cleanup
\* steps and ends with a success response.
C7_AbsentRecordIsSuccess ==
  \A r \in Reqs :
    (eff[r].destroyed = "absent" /\ ~err[r].fault) =>
      /\ err[r] = NoErr
      /\ pc[r] \in {"d_pic", "d_arts", "d_docs", "d_logout", "done"}
      /\ pc[r] = "done" =>
           /\ res[r].statusCode = 200
           /\ res[r].sent = 1
           /\ eff[r].tried = SnapRefs(r)
           /\ eff[r].docs
           /\ eff[r].teardown

C7_Witness ==
  \E r, q \in Reqs :
    /\ q # r
    /\ eff[q].destroyed = "present"
    /\ eff[r].destroyed = "absent"
    /\ pc[r] = "done"
    /\ err[r] = NoErr
    /\ res[r].statusCode = 200

\* C8: a state-changing request whose CSRF token is missing or does not match
\* its session is rejected before the route handler runs: it makes no
\* relational write, no blob upload or delete, no document delete, no
\* payment-provider call and no session teardown.
C8_CsrfRejectsBeforeHandler ==
  \A r \in Reqs :
    ( /\ inp[r].op \in Mutating
      /\ pc[r] \notin {"idle", "session"}
      /\ (inp[r].token # "good" \/ rq[r].session # inp[r].cookie) ) =>
        /\ pc[r] \in {"csrf", "errorHandler", "done"}
        /\ ~eff[r].handler
        /\ NoSideEffect(r)
        /\ pc[r] = "done" => res[r].statusCode # 200

C8_Witness ==
  \E r \in Reqs :
    /\ inp[r].op = "delete"
    /\ inp[r].cookie = "auth"
    /\ inp[r].token = "bad"
    /\ rq[r].session = "auth"
    /\ pc[r] = "done"
    /\ res[r].body = "invalid csrf token"

\* C9: a request of a protected profile operation that has no identity
\* attached makes no relational write, no blob upload or deletion, no
\* document deletion and no payment-provider call: isLoggedIn runs first.
C9_IdentityCheckedFirst ==
  \A r \in Reqs :
    (inp[r].op \in Mutating /\ ~rq[r].hasUser) =>
      /\ NoSideEffect(r)
      /\ ~eff[r].handler
      /\ pc[r] \notin {"upload", "u_update", "p_update", "p_delete", "d_find",
                       "d_destroy", "d_pic", "d_arts", "d_docs", "d_logout",
                       "c_customer", "c_card", "c_update"}

C9_Witness ==
  \E r \in Reqs :
    /\ inp[r].op = "picture"
    /\ inp[r].token = "good"
    /\ ~rq[r].hasUser
    /\ pc[r] = "done"
    /\ res[r].statusCode = 401

\* C10: every request that entered the pipeline and ended has been answered
\* exactly once, on every path.
C10_ExactlyOneResponse ==
  \A r \in Reqs : pc[r] \in Terminal => res[r].sent = 1

\* C11: the response to an uncaught internal error is generic: any two such
\* errors are answered with the same body, and each is written to the log.
C11_GenericErrorResponse ==
  \A r, q \in Reqs :
    ( /\ err[r].fault /\ pc[r] = "done" /\ res[r].sent = 1
      /\ err[q].fault /\ pc[q] = "done" /\ res[q].sent = 1 ) =>
        /\ res[r].body = res[q].body
        /\ \E i \in 1..Len(log[r]) : log[r][i].level = "error"

\* C13: every response carries the XSRF-TOKEN cookie, whatever stage answered.
C13_EveryResponseCarriesToken ==
  \A r \in Reqs : res[r].sent >= 1 => res[r].xsrf

AllFinished == \A r \in Reqs : pc[r] \in Terminal

AllTried == UNION {eff[r].tried : r \in Reqs}

AllUploaded == UNION {eff[r].uploaded : r \in Reqs}

\* A delete run d that ended in success next to an update-picture request q,
\* both finished.
DeleteRacedPicture(d, q) ==
  /\ AllFinished
  /\ inp[d].op = "delete" /\ Destroyed(d) /\ res[d].statusCode = 200
  /\ inp[q].op = "picture" /\ rq[q].hasUser

C18_AtMostOneCustomer ==
  [][ /\ customers' <= 1
      /\ customers' > customers => db.customer = NoCustomer ]_vars

\* C19: update-picture deletes the old picture only after the relational
\* update: a failed update deletes nothing, the stored reference never points
\* at a blob the request deleted, and a failed deletion of the old blob leaves
\* the update committed while the caller is answered with a failure.
C19_OldPictureDeletedAfterUpdate ==
  [][ \A q \in Reqs :
        inp'[q].op = "picture" =>
          /\ eff'[q].tried # {} => eff'[q].relWrite
          /\ err'[q].msg = "update" => eff'[q].tried = {}
          /\ db'.exists => db'.picture \notin (eff'[q].tried \ eff'[q].failed)
          /\ eff'[q].failed # {} =>
               /\ pc'[q] \in {"errorHandler", "done"}
               /\ eff'[q].relWrite
               /\ pc'[q] = "done" => (res'[q].statusCode = 500 /\ res'[q].sent = 1)
          /\ (pc[q] = "p_delete" /\ pc'[q] # "p_delete") => db' = db
    ]_vars

C19_Witness ==
  \E q \in Reqs :
    /\ inp[q].op = "picture"
    /\ eff[q].failed # {}
    /\ pc[q] = "done"
    /\ res[q].statusCode = 500
    /\ db.exists
    /\ db.picture = rq[q].file

IsPrefix(s, t) == Len(s) <= Len(t) /\ \A i \in 1..Len(s) : s[i] = t[i]

\* The route of r has been entered: one of its handler's calls was made or a
\* middleware of the route answered.
InRoute(r) ==
  \/ eff[r].handler
  \/ eff[r].uploaded # {}
  \/ res[r].statusCode \in {401, 422}
  \/ pc[r] \in {"validate", "isLoggedIn", "upload", "proxy", "dropped"}

\* C12 (as claimed): the stages of a request run in the order session lookup,
\* identity attachment, CSRF check, route handler; the CSRF check never runs
\* before the identity has been attached.
C12_AuthBeforeCsrf ==
  \A r \in Reqs :
    /\ IsPrefix(rq[r].stages, <<"session", "passport", "csrf">>)
    /\ InRoute(r) => rq[r].stages = <<"session", "passport", "csrf">>

\* C12 (amended): the stages of a request run in the order session lookup,
\* CSRF check, identity attachment, route handler; the identity is never
\* attached before the CSRF check has passed.
C12_CsrfBeforeAuth ==
  \A r \in Reqs :
    /\ IsPrefix(rq[r].stages, <<"session", "csrf", "passport">>)
    /\ InRoute(r) => rq[r].stages = <<"session", "csrf", "passport">>
    /\ err[r].msg = "invalid csrf token" => ~rq[r].hasUser

C12_Witness ==
  \E r \in Reqs :
    /\ inp[r].op = "delete"
    /\ eff[r].handler
    /\ rq[r].hasUser
    /\ rq[r].stages = <<"session", "csrf", "passport">>

\* ------------------------------------------------------------- C14..C16
Attempted(c) == conn[c].state # "none"

Bound(c) == conn[c].state = "bound"

\* C14: once a delete-account operation that removed the record is over, the
\* session record of the request is destroyed, a force-close event for the
\* identity has been published and no connection of that session is still
\* bound.
C14_TeardownAfterDelete ==
  \A r \in Reqs :
    (inp[r].op = "delete" /\ Destroyed(r) /\ pc[r] \in Terminal) =>
      /\ rq[r].session \notin sessions
      /\ relay.forceClose
      /\ \A c \in Clients : ~(Bound(c) /\ conn[c].cookie = rq[r].session)

\* C15: a connection is bound only with a validation that succeeded at the
\* handshake, and a handshake whose session is missing, tampered or unknown
\* is refused with no message delivered to it.
C15_BoundOnlyAfterValidation ==
  \A c \in Clients :
    /\ Bound(c) => (conn[c].validated /\ conn[c].valid)
    /\ (Attempted(c) /\ ~conn[c].valid) =>
         (conn[c].state = "refused" /\ conn[c].rcvd = 0 /\ conn[c].local = 0)

C15_Witness ==
  \E c \in Clients :
    /\ conn[c].state = "refused"
    /\ conn[c].cookie = "tampered"
    /\ relay.events > 0

\* C16: a client that holds the identity's valid session and connected to
\* member B has received every event member A published for the identity
\* since, each exactly once.
C16_DeliveredOnceAcrossMembers ==
  \A c \in Clients :
    (Attempted(c) /\ conn[c].valid /\ conn[c].member = "B") =>
      conn[c].rcvd = conn[c].expected

\* ------------------------------------------------------------------ C20
StartupFailed == boot.mongo = "failed" \/ boot.mysql = "failed"

C20_Safe ==
  /\ boot.listening => (boot.mongo = "ok" /\ boot.mysql = "ok")
  /\ boot.mysql # "pending" => boot.mongo = "ok"
  /\ StartupFailed =>
       /\ ~boot.listening
       /\ boot.pc \in {"catch", "ending", "exited"}
       /\ boot.pc # "catch" => boot.logged
       /\ boot.exit # NoExit => (boot.exit = 1 /\ boot.logged /\ boot.loggerEnded)

\* C20: the server listens only after the MongoDB connection and then the
\* MySQL authentication succeeded; when either fails the server never
\* listens, the error is logged and the process exits with code 1, after the
\* error logger has ended.
C20_ListenAfterBothStores == []C20_Safe /\ (StartupFailed ~> boot.exit = 1)

C20_Witness ==
  /\ boot.mongo = "ok"
  /\ boot.mysql = "failed"
  /\ boot.pc = "exited"
  /\ boot.exit = 1

====
